---- MODULE Spec2Model ----
(***************************************************************************)
(* Model of controllers/machine_controller_phases.go of cluster-api:       *)
(* the Machine phase derivation (reconcilePhase), the generic external     *)
(* object reconciler (reconcileExternal) and its two call sites            *)
(* (reconcileBootstrap, reconcileInfrastructure).                          *)
(***************************************************************************)
EXTENDS Integers, Sequences, FiniteSets, TLC

VARIABLES
    m,        \* the Machine handed to the reconciler (*clusterv1.Machine)
    objs,     \* the object store: per reference, Missing or the object's metadata
    watches,  \* references whose kind the externalTracker watches
    last      \* what the most recent call did and returned

vars == <<m, objs, watches, last>>

\* Times are 1..MaxTime (0 stands for a nil timestamp); metav1.Now() returns a
\* time later than every timestamp stored before.
MaxTime == 2

(***************************************************************************)
(* Values                                                                  *)
(***************************************************************************)
\* A nil pointer (FailureReason, FailureMessage, DataSecretName, ProviderID, ...).
Nil == "<nil>"

MachinePhasePending == "Pending"
MachinePhaseProvisioning == "Provisioning"
MachinePhaseProvisioned == "Provisioned"
MachinePhaseRunning == "Running"
MachinePhaseDeleting == "Deleting"
MachinePhaseFailed == "Failed"
MachinePhaseUnknown == "Unknown"

\* Status.Phase is a plain string: unset, one of the typed phases, or anything else.
EntryPhases ==
    {"", MachinePhasePending, MachinePhaseProvisioning, MachinePhaseProvisioned,
     MachinePhaseRunning, MachinePhaseDeleting, MachinePhaseFailed, MachinePhaseUnknown}

\* The delay of every RequeueAfterError this file creates, in seconds.
externalReadyWait == 30

(***************************************************************************)
(* reconcilePhase                                                          *)
(***************************************************************************)
SetTypedPhase(mach, p) == [mach EXCEPT !.phase = p]

\* Variant of PhaseRules: the Failed statement after the Deleting statement.
PhaseRulesFailedLast(mach) ==
    << [when |-> mach.phase = "", phase |-> MachinePhasePending],
       [when |-> mach.bootstrapReady /\ ~mach.infrastructureReady, phase |-> MachinePhaseProvisioning],
       [when |-> mach.nodeRef, phase |-> MachinePhaseProvisioned],
       [when |-> mach.nodeRef /\ mach.infrastructureReady, phase |-> MachinePhaseRunning],
       [when |-> mach.deletionTimestamp, phase |-> MachinePhaseDeleting],
       [when |-> mach.failureReason # Nil \/ mach.failureMessage # Nil, phase |-> MachinePhaseFailed] >>

\* Variant of PhaseRules: the Provisioned statement after the Running statement.
PhaseRulesProvisionedLast(mach) ==
    << [when |-> mach.phase = "", phase |-> MachinePhasePending],
       [when |-> mach.bootstrapReady /\ ~mach.infrastructureReady, phase |-> MachinePhaseProvisioning],
       [when |-> mach.nodeRef /\ mach.infrastructureReady, phase |-> MachinePhaseRunning],
       [when |-> mach.nodeRef, phase |-> MachinePhaseProvisioned],
       [when |-> mach.failureReason # Nil \/ mach.failureMessage # Nil, phase |-> MachinePhaseFailed],
       [when |-> mach.deletionTimestamp, phase |-> MachinePhaseDeleting] >>

\* Variant of PhaseRules: a Machine that enters in phase Failed leaves it only
\* for Deleting.
PhaseRulesFailedSticky(mach) ==
    << [when |-> mach.phase = "", phase |-> MachinePhasePending],
       [when |-> mach.phase # MachinePhaseFailed /\ mach.bootstrapReady /\ ~mach.infrastructureReady,
        phase |-> MachinePhaseProvisioning],
       [when |-> mach.phase # MachinePhaseFailed /\ mach.nodeRef, phase |-> MachinePhaseProvisioned],
       [when |-> mach.phase # MachinePhaseFailed /\ mach.nodeRef /\ mach.infrastructureReady,
        phase |-> MachinePhaseRunning],
       [when |-> mach.failureReason # Nil \/ mach.failureMessage # Nil, phase |-> MachinePhaseFailed],
       [when |-> mach.deletionTimestamp, phase |-> MachinePhaseDeleting] >>

\* The six "if" statements of reconcilePhase, in source order, each with its
\* condition evaluated on the Machine as it is when the statement is reached.
PhaseRules(mach) ==
    << [when |-> mach.phase = "", phase |-> MachinePhasePending],
       [when |-> mach.bootstrapReady /\ ~mach.infrastructureReady, phase |-> MachinePhaseProvisioning],
       [when |-> mach.nodeRef, phase |-> MachinePhaseProvisioned],
       [when |-> mach.nodeRef /\ mach.infrastructureReady, phase |-> MachinePhaseRunning],
       [when |-> mach.failureReason # Nil \/ mach.failureMessage # Nil, phase |-> MachinePhaseFailed],
       [when |-> mach.deletionTimestamp, phase |-> MachinePhaseDeleting] >>

\* Runs the statements from the i-th on: a statement whose condition holds
\* overwrites the phase, whatever an earlier statement wrote.
RECURSIVE ApplyPhaseRules(_, _)
ApplyPhaseRules(mach, i) ==
    IF i > Len(PhaseRules(mach))
    THEN mach
    ELSE LET rule == PhaseRules(mach)[i]
         IN  ApplyPhaseRules(IF rule.when THEN SetTypedPhase(mach, rule.phase) ELSE mach, i + 1)

\* Variant of StampLastUpdated: the timestamp is written on every call.
StampLastUpdatedAlways(mach, originalPhase, now) ==
    [mach EXCEPT !.lastUpdated = now]

\* Variant of StampLastUpdated: the timestamp is never written.
StampLastUpdatedNever(mach, originalPhase, now) ==
    mach

\* "If the phase has changed, update the LastUpdated timestamp".
StampLastUpdated(mach, originalPhase, now) ==
    IF mach.phase # originalPhase
    THEN [mach EXCEPT !.lastUpdated = now]
    ELSE mach

reconcilePhase(mach, now) ==
    StampLastUpdated(ApplyPhaseRules(mach, 1), mach.phase, now)

(***************************************************************************)
(* Errors.  An error is its cause (kind, and for a RequeueAfterError the   *)
(* delay) and its text, a sequence of words.                               *)
(***************************************************************************)
NoError == [kind |-> "nil", after |-> 0, msg |-> <<>>]

\* &capierrors.RequeueAfterError{RequeueAfter: d}
RequeueAfterError(d) == [kind |-> "RequeueAfterError", after |-> d, msg |-> <<"requeue", "in:", ToString(d)>>]

\* errors.Wrapf(err, text): same cause, the text put in front of the cause's text.
Wrapf(err, text) == [err EXCEPT !.msg = text \o <<":">> \o @]

\* errors.Errorf(text)
Errorf(text) == [kind |-> "error", after |-> 0, msg |-> text]

\* strings.Contains on word sequences.
Contains(s, substr) ==
    \E i \in 0..(Len(s) - Len(substr)) : SubSeq(s, i + 1, i + Len(substr)) = substr

\* apierrors.IsNotFound(errors.Cause(err))
IsNotFound(err) == err.kind = "NotFound"

(***************************************************************************)
(* The collaborators' outcomes: what a call into the API server, the patch *)
(* helper, the tracker or the unstructured accessors can return.           *)
(***************************************************************************)
BootstrapRef == "bootstrap"
InfrastructureRef == "infrastructure"
Refs == {BootstrapRef, InfrastructureRef}

\* What the store holds under a reference: whether an object exists, and the
\* metadata of it that this file writes (controller owner reference, cluster label).
Missing == [exists |-> FALSE, ownerRef |-> FALSE, clusterLabel |-> FALSE]
Created == [exists |-> TRUE, ownerRef |-> FALSE, clusterLabel |-> FALSE]

\* An object may also carry the fields its provider wrote (paused, deleting,
\* ready, failureReason, failureMessage, dataSecretName, providerID, addresses,
\* failureDomain); every read of such an object returns what it carries.  An
\* object that carries the metadata alone reads as anything a provider may
\* have written by the time of the read.
Tracked(obj) == "ready" \in DOMAIN obj

\* utilconversion.ConvertReferenceAPIContract
ConvertErrors == { [kind |-> "UnsupportedVersion", after |-> 0, msg |-> <<"no", "version", "matches", "the", "contract">>] }

\* external.Get on a reference the store does not hold
NotFoundError == [kind |-> "NotFound", after |-> 0, msg |-> <<"not", "found">>]

\* external.Get failing for any other reason
GetErrors == { [kind |-> "IOError", after |-> 0, msg |-> <<"connection", "refused">>] }

\* The errors external.Get can return for the stored object obj.
GetFailures(obj) == GetErrors \cup (IF obj.exists THEN {} ELSE {NotFoundError})

\* patch.NewHelper
HelperErrors == { [kind |-> "HelperError", after |-> 0, msg |-> <<"failed", "to", "convert", "object">>] }

\* controllerutil.SetControllerReference
OwnerErrors == { [kind |-> "AlreadyOwned", after |-> 0, msg |-> <<"object", "is", "already", "owned", "by", "another", "controller">>] }

\* patchHelper.Patch: an optimistic-concurrency conflict, or a rejection whose
\* text is whatever the API server or an admission webhook sends.
PatchErrors ==
    { [kind |-> "Conflict", after |-> 0, msg |-> <<"the", "object", "has", "been", "modified">>],
      [kind |-> "Rejected", after |-> 0, msg |-> <<"admission", "webhook", "denied", "the", "request:", "could", "not", "find", "subnet">>] }

\* externalTracker.Watch
WatchErrors == { [kind |-> "WatchError", after |-> 0, msg |-> <<"failed", "to", "start", "watch">>] }

\* A structural read whose path holds a value of the wrong shape.
AccessorErrors == { [kind |-> "TypeMismatch", after |-> 0, msg |-> <<"accessor", "error">>] }

\* annotations.IsPaused(cluster, obj)
PausedOutcomes(obj) == IF Tracked(obj) THEN {obj.paused} ELSE BOOLEAN

\* external.FailuresFrom(obj): status.failureReason and status.failureMessage, "" when absent.
FailureReasonsRead(obj) == IF Tracked(obj) THEN {obj.failureReason} ELSE {"", "CreateError"}
FailureMessagesRead(obj) == IF Tracked(obj) THEN {obj.failureMessage} ELSE {"", "quota exceeded"}

\* obj.GetDeletionTimestamp().IsZero() is false
DeletingOutcomes(obj) == IF Tracked(obj) THEN {obj.deleting} ELSE BOOLEAN

\* external.IsReady(obj)
ReadyOutcomes(obj) == IF Tracked(obj) THEN {obj.ready} ELSE BOOLEAN

\* status.dataSecretName of a bootstrap object, "" when absent
SecretNamesRead(obj) == IF Tracked(obj) THEN {obj.dataSecretName} ELSE {"", "secret-1"}

\* spec.providerID of an infrastructure object, "" when empty
ProviderIDsRead(obj) == IF Tracked(obj) THEN {obj.providerID} ELSE {"", "aws:///i-123"}

\* status.addresses of an infrastructure object: absent
\* (util.ErrUnstructuredFieldNotFound) or a list
AddressesRead(obj) ==
    IF Tracked(obj) THEN {obj.addresses}
    ELSE { [found |-> FALSE, value |-> <<>>], [found |-> TRUE, value |-> <<"10.0.0.1">>] }

\* spec.failureDomain of an infrastructure object: absent or a string
FailureDomainsRead(obj) ==
    IF Tracked(obj) THEN {obj.failureDomain}
    ELSE { [found |-> FALSE, value |-> ""], [found |-> TRUE, value |-> "zone-1"] }

\* util.UnstructuredUnmarshalField(obj, &target, path...): the value at the
\* path written into target, and target as it was when the path is absent.
UnstructuredUnmarshalField(target, read) == IF read.found THEN read.value ELSE target

(***************************************************************************)
(* reconcileExternal                                                       *)
(***************************************************************************)
\* external.ReconcileOutput
ReconcileOutput(result, paused) == [result |-> result, paused |-> paused]
EmptyOutput == ReconcileOutput(FALSE, FALSE)

\* What one reconcileExternal call leaves behind and returns: the Machine, the
\* stored object, whether a watch was registered, the output and the error,
\* with the outcome of the fetch and the number of patches sent.
ExternalReturn(mach, obj, watch, out, err, fetch, patches) ==
    [m |-> mach, obj |-> obj, watch |-> watch, out |-> out, err |-> err,
     fetch |-> fetch, patches |-> patches]

\* Variant of ExternalNotFoundError: the error of external.Get as it came.
ExternalNotFoundErrorUnwrapped(ref) == NotFoundError

\* The error returned for a reference that is not found.
ExternalNotFoundError(ref) ==
    Wrapf(RequeueAfterError(externalReadyWait),
          <<"could", "not", "find", ref, "for", "Machine,", "requeuing">>)

\* capierrors.MachineStatusError(failureReason)
MachineStatusError(reason) == reason

\* fmt.Sprintf("Failure detected from referenced resource %v with name %q: %s", ...)
ExternalFailureMessage(ref, message) ==
    IF ref = BootstrapRef
    THEN "Failure detected from referenced resource bootstrap: quota exceeded"
    ELSE "Failure detected from referenced resource infrastructure: quota exceeded"

\* Variant of SetExternalFailures: the fields are written whatever was read.
SetExternalFailuresOverwriting(mach, ref, reason, message) ==
    [mach EXCEPT !.failureReason = IF reason # "" THEN MachineStatusError(reason) ELSE Nil,
                 !.failureMessage = IF message # "" THEN ExternalFailureMessage(ref, message) ELSE Nil]

\* Variant of SetExternalFailures: the failure message is not copied.
SetExternalFailuresReasonOnly(mach, ref, reason, message) ==
    [mach EXCEPT !.failureReason = IF reason # "" THEN MachineStatusError(reason) ELSE @]

\* "Set failure reason and message, if any."
SetExternalFailures(mach, ref, reason, message) ==
    [mach EXCEPT !.failureReason = IF reason # "" THEN MachineStatusError(reason) ELSE @,
                 !.failureMessage = IF message # "" THEN ExternalFailureMessage(ref, message) ELSE @]

\* From the watch registration to the return.
ExternalWatchAndFailures(mach, obj, ref) ==
    LET fail(err) == ExternalReturn(mach, obj, FALSE, EmptyOutput, err, "found", 1)
    IN  { fail(e) : e \in WatchErrors }
        \cup { ExternalReturn(mach, obj, TRUE, EmptyOutput, e, "found", 1) : e \in AccessorErrors }
        \cup { ExternalReturn(SetExternalFailures(mach, ref, reason, message), obj, TRUE,
                              ReconcileOutput(TRUE, FALSE), NoError, "found", 1)
                 : reason \in FailureReasonsRead(obj), message \in FailureMessagesRead(obj) }

\* Variant of ExternalAdopt: the pause check after the patch.
ExternalAdoptPausedLate(mach, obj, ref) ==
    LET ret(o, out, err, patches) == ExternalReturn(mach, o, FALSE, out, err, "found", patches)
        adopted == [obj EXCEPT !.ownerRef = TRUE, !.clusterLabel = TRUE]
    IN  { ret(obj, EmptyOutput, e, 0) : e \in HelperErrors \cup OwnerErrors }
        \cup { ret(obj, EmptyOutput, e, 1) : e \in PatchErrors }
        \cup UNION { IF paused
                      THEN { ret(adopted, ReconcileOutput(FALSE, TRUE), NoError, 1) }
                      ELSE ExternalWatchAndFailures(mach, adopted, ref)
                    : paused \in PausedOutcomes(obj) }

\* Variant of ExternalAdopt: a failed patch is logged and the watch registered.
ExternalAdoptPatchErrorLate(mach, obj, ref) ==
    LET ret(out, err, patches) == ExternalReturn(mach, obj, FALSE, out, err, "found", patches)
        adopted == [obj EXCEPT !.ownerRef = TRUE, !.clusterLabel = TRUE]
    IN  UNION { IF paused
                THEN { ret(ReconcileOutput(FALSE, TRUE), NoError, 0) }
                ELSE { ret(EmptyOutput, e, 0) : e \in HelperErrors \cup OwnerErrors }
                     \cup { ExternalReturn(mach, obj, TRUE, EmptyOutput, e, "found", 1) : e \in PatchErrors }
                     \cup ExternalWatchAndFailures(mach, adopted, ref)
              : paused \in PausedOutcomes(obj) }

\* From the pause check to the patch, on the object the fetch returned.
ExternalAdopt(mach, obj, ref) ==
    LET ret(out, err, patches) == ExternalReturn(mach, obj, FALSE, out, err, "found", patches)
        adopted == [obj EXCEPT !.ownerRef = TRUE, !.clusterLabel = TRUE]
    IN  UNION { IF paused
                THEN { ret(ReconcileOutput(FALSE, TRUE), NoError, 0) }
                ELSE { ret(EmptyOutput, e, 0) : e \in HelperErrors \cup OwnerErrors }
                     \cup { ret(EmptyOutput, e, 1) : e \in PatchErrors }
                     \cup ExternalWatchAndFailures(mach, adopted, ref)
              : paused \in PausedOutcomes(obj) }

reconcileExternal(mach, obj, ref) ==
    LET ret(err, fetch) == ExternalReturn(mach, obj, FALSE, EmptyOutput, err, fetch, 0)
    IN  { ret(e, "none") : e \in ConvertErrors }
        \cup { IF IsNotFound(e) THEN ret(ExternalNotFoundError(ref), "notfound") ELSE ret(e, "error")
               : e \in GetFailures(obj) }
        \cup IF obj.exists THEN ExternalAdopt(mach, obj, ref) ELSE {}

(***************************************************************************)
(* reconcileBootstrap and reconcileInfrastructure                          *)
(***************************************************************************)
\* What one orchestrator call leaves behind and returns; r is the return of
\* its reconcileExternal call, whose outcome is kept for the record.
OrchestratorReturn(mach, r, err) ==
    [m |-> mach, obj |-> r.obj, watch |-> r.watch, err |-> err,
     extErr |-> r.err, out |-> r.out, fetch |-> r.fetch, patches |-> r.patches]

\* Variant of BootstrapReadiness: the readiness test inverted.
BootstrapReadinessInverted(r) ==
    { OrchestratorReturn(r.m, r, e) : e \in AccessorErrors }
    \cup UNION {
        IF ready
        THEN { OrchestratorReturn(r.m, r,
                   Wrapf(RequeueAfterError(externalReadyWait),
                         <<"Bootstrap", "provider", "for", "Machine", "is", "not", "ready,", "requeuing">>)) }
        ELSE { OrchestratorReturn(r.m, r,
                   Wrapf(e, <<"failed", "to", "retrieve", "dataSecretName", "from", "bootstrap", "provider">>))
                 : e \in AccessorErrors }
             \cup { IF secretName = ""
                    THEN OrchestratorReturn(r.m, r,
                             Errorf(<<"retrieved", "empty", "dataSecretName", "from", "bootstrap", "provider">>))
                    ELSE OrchestratorReturn(
                             [r.m EXCEPT !.data = Nil, !.dataSecretName = secretName, !.bootstrapReady = TRUE],
                             r, NoError)
                  : secretName \in SecretNamesRead(r.obj) }
      : ready \in ReadyOutcomes(r.obj) }

\* reconcileBootstrap from external.IsReady on.
BootstrapReadiness(r) ==
    { OrchestratorReturn(r.m, r, e) : e \in AccessorErrors }
    \cup UNION {
        IF ~ready
        THEN { OrchestratorReturn(r.m, r,
                   Wrapf(RequeueAfterError(externalReadyWait),
                         <<"Bootstrap", "provider", "for", "Machine", "is", "not", "ready,", "requeuing">>)) }
        ELSE { OrchestratorReturn(r.m, r,
                   Wrapf(e, <<"failed", "to", "retrieve", "dataSecretName", "from", "bootstrap", "provider">>))
                 : e \in AccessorErrors }
             \cup { IF secretName = ""
                    THEN OrchestratorReturn(r.m, r,
                             Errorf(<<"retrieved", "empty", "dataSecretName", "from", "bootstrap", "provider">>))
                    ELSE OrchestratorReturn(
                             [r.m EXCEPT !.data = Nil, !.dataSecretName = secretName, !.bootstrapReady = TRUE],
                             r, NoError)
                  : secretName \in SecretNamesRead(r.obj) }
      : ready \in ReadyOutcomes(r.obj) }

\* Variant of BootstrapAfterExternal: an error of reconcileExternal marks the
\* bootstrap as not ready.
BootstrapAfterExternalResetting(r) ==
    IF r.err # NoError THEN { OrchestratorReturn([r.m EXCEPT !.bootstrapReady = FALSE], r, r.err) }
    ELSE IF r.out.paused THEN { OrchestratorReturn(r.m, r, NoError) }
    ELSE IF r.m.dataSecretName # Nil
    THEN { OrchestratorReturn([r.m EXCEPT !.bootstrapReady = TRUE], r, NoError) }
    ELSE UNION { IF deleting THEN { OrchestratorReturn(r.m, r, NoError) } ELSE BootstrapReadiness(r)
               : deleting \in DeletingOutcomes(r.obj) }

\* reconcileBootstrap after its reconcileExternal call returned r.
BootstrapAfterExternal(r) ==
    IF r.err # NoError THEN { OrchestratorReturn(r.m, r, r.err) }
    ELSE IF r.out.paused THEN { OrchestratorReturn(r.m, r, NoError) }
    ELSE IF r.m.dataSecretName # Nil
    THEN { OrchestratorReturn([r.m EXCEPT !.bootstrapReady = TRUE], r, NoError) }
    ELSE UNION { IF deleting THEN { OrchestratorReturn(r.m, r, NoError) } ELSE BootstrapReadiness(r)
               : deleting \in DeletingOutcomes(r.obj) }

reconcileBootstrap(mach, obj) ==
    IF ~mach.configRef
    THEN { OrchestratorReturn(mach, ExternalReturn(mach, obj, FALSE, EmptyOutput, NoError, "none", 0), NoError) }
    ELSE UNION { BootstrapAfterExternal(r) : r \in reconcileExternal(mach, obj, BootstrapRef) }

\* capierrors.InvalidConfigurationMachineError
InvalidConfigurationMachineError == "InvalidConfiguration"

\* fmt.Sprintf("Machine infrastructure resource %v with name %q has been deleted after being ready", ...)
DeletedAfterReadyMessage == "Machine infrastructure resource has been deleted after being ready"

\* The error branch of reconcileInfrastructure's reconcileExternal call.
InfrastructureExternalFailed(mach, err) ==
    IF mach.infrastructureReady /\ Contains(err.msg, <<"could", "not", "find">>)
    THEN [mach EXCEPT !.failureReason = InvalidConfigurationMachineError,
                      !.failureMessage = DeletedAfterReadyMessage]
    ELSE mach

\* Variant of InfrastructureFields: an empty spec.providerID is waited for.
InfrastructureFieldsWaitingForID(mach, r) ==
    { OrchestratorReturn(mach, r,
          Wrapf(e, <<"failed", "to", "retrieve", "Spec.ProviderID", "from", "infrastructure", "provider">>))
        : e \in AccessorErrors }
    \cup UNION {
        IF providerID = ""
        THEN { OrchestratorReturn(mach, r,
                   Wrapf(RequeueAfterError(externalReadyWait),
                         <<"retrieved", "empty", "Spec.ProviderID", "from", "infrastructure", "provider">>)) }
        ELSE { OrchestratorReturn(
                   [mach EXCEPT
                       !.addresses = UnstructuredUnmarshalField(@, addresses),
                       !.failureDomain = UnstructuredUnmarshalField(@, failureDomain),
                       !.providerID = providerID],
                   r, NoError)
                 : addresses \in AddressesRead(r.obj), failureDomain \in FailureDomainsRead(r.obj) }
      : providerID \in ProviderIDsRead(r.obj) }

\* reconcileInfrastructure from the read of spec.providerID on; mach has
\* InfrastructureReady set.
InfrastructureFields(mach, r) ==
    { OrchestratorReturn(mach, r,
          Wrapf(e, <<"failed", "to", "retrieve", "Spec.ProviderID", "from", "infrastructure", "provider">>))
        : e \in AccessorErrors }
    \cup UNION {
        IF providerID = ""
        THEN { OrchestratorReturn(mach, r,
                   Errorf(<<"retrieved", "empty", "Spec.ProviderID", "from", "infrastructure", "provider">>)) }
        ELSE { OrchestratorReturn(mach, r,
                   Wrapf(e, <<"failed", "to", "retrieve", "addresses", "from", "infrastructure", "provider">>))
                 : e \in AccessorErrors }
             \cup UNION {
                 LET withAddresses == [mach EXCEPT !.addresses = UnstructuredUnmarshalField(@, addresses)]
                 IN  { OrchestratorReturn(withAddresses, r,
                           Wrapf(e, <<"failed", "to", "failure", "domain", "from", "infrastructure", "provider">>))
                         : e \in AccessorErrors }
                     \cup { OrchestratorReturn(
                                [withAddresses EXCEPT
                                    !.failureDomain = UnstructuredUnmarshalField(@, failureDomain),
                                    !.providerID = providerID],
                                r, NoError)
                          : failureDomain \in FailureDomainsRead(r.obj) }
               : addresses \in AddressesRead(r.obj) }
      : providerID \in ProviderIDsRead(r.obj) }

\* reconcileInfrastructure after its reconcileExternal call returned r.
InfrastructureAfterExternal(r) ==
    IF r.err # NoError THEN { OrchestratorReturn(InfrastructureExternalFailed(r.m, r.err), r, r.err) }
    ELSE IF r.out.paused THEN { OrchestratorReturn(r.m, r, NoError) }
    ELSE UNION {
        IF deleting
        THEN { OrchestratorReturn(r.m, r, NoError) }
        ELSE { OrchestratorReturn(r.m, r, e) : e \in AccessorErrors }
             \cup UNION {
                 LET mach == [r.m EXCEPT !.infrastructureReady = ready]
                 IN  IF ~ready
                     THEN { OrchestratorReturn(mach, r,
                                Wrapf(RequeueAfterError(externalReadyWait),
                                      <<"Infrastructure", "provider", "for", "Machine", "is", "not", "ready,", "requeuing">>)) }
                     ELSE InfrastructureFields(mach, r)
               : ready \in ReadyOutcomes(r.obj) }
      : deleting \in DeletingOutcomes(r.obj) }

\* Variant of reconcileInfrastructure: a Machine with a recorded failure is
\* left alone.
reconcileInfrastructureGuarded(mach, obj) ==
    IF mach.failureReason # Nil \/ mach.failureMessage # Nil
    THEN { OrchestratorReturn(mach, ExternalReturn(mach, obj, FALSE, EmptyOutput, NoError, "none", 0), NoError) }
    ELSE UNION { InfrastructureAfterExternal(r) : r \in reconcileExternal(mach, obj, InfrastructureRef) }

reconcileInfrastructure(mach, obj) ==
    UNION { InfrastructureAfterExternal(r) : r \in reconcileExternal(mach, obj, InfrastructureRef) }

(***************************************************************************)
(* State                                                                   *)
(***************************************************************************)
\* A Machine as created: no status yet, inline bootstrap data.  configRef
\* tells whether Spec.Bootstrap.ConfigRef is set.
NewMachine(configRef) ==
    [phase |-> "", bootstrapReady |-> FALSE, infrastructureReady |-> FALSE, nodeRef |-> FALSE,
     failureReason |-> Nil, failureMessage |-> Nil, lastUpdated |-> 0, deletionTimestamp |-> FALSE,
     addresses |-> <<>>, configRef |-> configRef, data |-> "inline", dataSecretName |-> Nil,
     providerID |-> Nil, failureDomain |-> Nil]

\* The record of a state no call has led to.  Of a call it tells the
\* operation and its reference, whether the step before was a call of the same
\* operation (again), the outcome of the fetch ("none" when nothing was
\* fetched), the number of patches sent, whether a watch was registered, what
\* reconcileExternal returned (out, extErr) and the error the operation returned.
NoCall ==
    [op |-> "none", ref |-> "none", again |-> FALSE, fetch |-> "none", patches |-> 0,
     watched |-> FALSE, out |-> EmptyOutput, extErr |-> NoError, err |-> NoError]

Init ==
    /\ m \in { NewMachine(configRef) : configRef \in BOOLEAN }
    /\ objs = [ref \in Refs |-> Missing]
    /\ watches = {}
    /\ last = NoCall

(***************************************************************************)
(* The reconciler's operations                                             *)
(***************************************************************************)
ReconcilePhaseCall ==
    \E now \in 1..MaxTime :
        /\ now > m.lastUpdated
        /\ m' = reconcilePhase(m, now)
        /\ last' = [NoCall EXCEPT !.op = "reconcilePhase", !.again = (last.op = "reconcilePhase")]
        /\ UNCHANGED <<objs, watches>>

\* The effect of a call that returned r on the reference ref.
Returned(op, ref, r, extErr, err) ==
    /\ m' = r.m
    /\ objs' = [objs EXCEPT ![ref] = r.obj]
    /\ watches' = IF r.watch THEN watches \cup {ref} ELSE watches
    /\ last' = [op |-> op, ref |-> ref, again |-> (last.op = op), fetch |-> r.fetch,
                patches |-> r.patches, watched |-> r.watch, out |-> r.out,
                extErr |-> extErr, err |-> err]

ReconcileExternalCall(ref) ==
    /\ ref = BootstrapRef => m.configRef
    /\ \E r \in reconcileExternal(m, objs[ref], ref) :
           Returned("reconcileExternal", ref, r, r.err, r.err)

ReconcileBootstrapCall ==
    \E r \in reconcileBootstrap(m, objs[BootstrapRef]) :
        Returned("reconcileBootstrap", BootstrapRef, r, r.extErr, r.err)

ReconcileInfrastructureCall ==
    \E r \in reconcileInfrastructure(m, objs[InfrastructureRef]) :
        Returned("reconcileInfrastructure", InfrastructureRef, r, r.extErr, r.err)

(***************************************************************************)
(* The environment: the providers and the other controllers                *)
(***************************************************************************)
\* A provider creates the object a reference names.
CreateObject(ref) ==
    /\ ref = BootstrapRef => m.configRef
    /\ ~objs[ref].exists
    /\ objs' = [objs EXCEPT ![ref] = Created]
    /\ last' = NoCall
    /\ UNCHANGED <<m, watches>>

\* The object a reference names is deleted.
DeleteObject(ref) ==
    /\ objs[ref].exists
    /\ objs' = [objs EXCEPT ![ref] = Missing]
    /\ last' = NoCall
    /\ UNCHANGED <<m, watches>>

\* The node controller records the Machine's node.
SetNodeRef ==
    /\ ~m.nodeRef
    /\ m' = [m EXCEPT !.nodeRef = TRUE]
    /\ last' = NoCall
    /\ UNCHANGED <<objs, watches>>

\* The Machine's deletion is requested.
SetDeletionTimestamp ==
    /\ ~m.deletionTimestamp
    /\ m' = [m EXCEPT !.deletionTimestamp = TRUE]
    /\ last' = NoCall
    /\ UNCHANGED <<objs, watches>>

\* The caller has looked at what the call returned and moves on.
Resume ==
    /\ last # NoCall
    /\ last' = NoCall
    /\ UNCHANGED <<m, objs, watches>>

\* No call's return is waiting for its caller.
Idle == last = NoCall

\* One thing at a time: a call, then its caller's look at the result; the
\* environment moves between calls.
Next ==
    \/ Idle /\ ReconcilePhaseCall
    \/ Idle /\ \E ref \in Refs : ReconcileExternalCall(ref)
    \/ Idle /\ ReconcileBootstrapCall
    \/ Idle /\ ReconcileInfrastructureCall
    \/ Idle /\ \E ref \in Refs : CreateObject(ref)
    \/ Idle /\ \E ref \in Refs : DeleteObject(ref)
    \/ Idle /\ SetNodeRef
    \/ Idle /\ SetDeletionTimestamp
    \/ Resume

Spec == Init /\ [][Next]_vars

(***************************************************************************)
(* reconcilePhase as a function: any Machine status, reconcilePhase alone  *)
(***************************************************************************)
PhaseInputs ==
    { [NewMachine(FALSE) EXCEPT
          !.phase = phase, !.bootstrapReady = flags[1], !.infrastructureReady = flags[2],
          !.nodeRef = flags[3], !.deletionTimestamp = flags[4],
          !.failureReason = failureReason, !.failureMessage = failureMessage,
          !.lastUpdated = lastUpdated]
        : phase \in EntryPhases, flags \in [1..4 -> BOOLEAN],
          failureReason \in {Nil, InvalidConfigurationMachineError},
          failureMessage \in {Nil, DeletedAfterReadyMessage},
          lastUpdated \in 0..(MaxTime - 1) }

InitPhase ==
    /\ m \in PhaseInputs
    /\ objs = [ref \in Refs |-> Missing]
    /\ watches = {}
    /\ last = NoCall

NextPhase == ReconcilePhaseCall

SpecPhase == InitPhase /\ [][NextPhase]_vars

(***************************************************************************)
(* The reconcile functions against objects with known content: any Machine *)
(* a pass can be handed, any content of the object under one reference,    *)
(* calls in any order and any number, none of them hit by a fault of the   *)
(* API server, the patch helper, the tracker or a malformed field.         *)
(***************************************************************************)
\* The errors that come from a collaborator's fault, not from the objects' content.
FaultKinds ==
    { e.kind : e \in ConvertErrors \cup GetErrors \cup HelperErrors \cup OwnerErrors
                     \cup PatchErrors \cup WatchErrors \cup AccessorErrors }

\* An object as its provider wrote it, not yet adopted.
Object(paused, deleting, ready, failureReason, failureMessage, dataSecretName, providerID, addresses, failureDomain) ==
    [exists |-> TRUE, ownerRef |-> FALSE, clusterLabel |-> FALSE,
     paused |-> paused, deleting |-> deleting, ready |-> ready,
     failureReason |-> failureReason, failureMessage |-> failureMessage,
     dataSecretName |-> dataSecretName, providerID |-> providerID,
     addresses |-> addresses, failureDomain |-> failureDomain]

AddressesAbsent == [found |-> FALSE, value |-> <<>>]
FailureDomainAbsent == [found |-> FALSE, value |-> ""]

\* The object a provider leaves once it is done: not paused, not deleting,
\* ready, no failure, its data secret (bootstrap) or provider id (infrastructure) set.
SettledObject(ref) ==
    IF ref = BootstrapRef
    THEN Object(FALSE, FALSE, TRUE, "", "", "secret-1", "", AddressesAbsent, FailureDomainAbsent)
    ELSE Object(FALSE, FALSE, TRUE, "", "", "", "aws:///i-123",
                [found |-> TRUE, value |-> <<"10.0.0.1">>], [found |-> TRUE, value |-> "zone-1"])

BootstrapObjects ==
    { Object(flags[1], flags[2], flags[3], failureReason, failureMessage, dataSecretName,
             "", AddressesAbsent, FailureDomainAbsent)
        : flags \in [1..3 -> BOOLEAN],
          failureReason \in {"", "CreateError"}, failureMessage \in {"", "quota exceeded"},
          dataSecretName \in {"", "secret-1"} }

InfrastructureObjects ==
    { Object(flags[1], flags[2], flags[3], failureReason, failureMessage, "",
             providerID, addresses, failureDomain)
        : flags \in [1..3 -> BOOLEAN],
          failureReason \in {"", "CreateError"}, failureMessage \in {"", "quota exceeded"},
          providerID \in {"", "aws:///i-123"},
          addresses \in {AddressesAbsent, [found |-> TRUE, value |-> <<"10.0.0.1">>]},
          failureDomain \in {FailureDomainAbsent, [found |-> TRUE, value |-> "zone-1"]} }

\* The Machines a pass starts from: new, or with a data secret its user
\* supplied, or with what an earlier pass recorded of the infrastructure
\* (InfrastructureReady, Addresses).
PassMachines ==
    { [NewMachine(configRef) EXCEPT
          !.dataSecretName = dataSecretName, !.data = IF dataSecretName = Nil THEN "inline" ELSE Nil,
          !.infrastructureReady = infrastructureReady, !.addresses = addresses]
        : configRef \in BOOLEAN, dataSecretName \in {Nil, "user-secret"},
          infrastructureReady \in BOOLEAN, addresses \in {<<>>, <<"10.0.0.9">>} }

\* One reference's object has any content, the other's is missing or settled.
InitPass ==
    /\ m \in PassMachines
    /\ objs \in [Refs -> {Missing} \cup BootstrapObjects \cup InfrastructureObjects]
    /\ objs[BootstrapRef] \in {Missing} \cup (IF m.configRef THEN BootstrapObjects ELSE {})
    /\ objs[InfrastructureRef] \in {Missing} \cup InfrastructureObjects
    /\ \/ objs[BootstrapRef] \in {Missing, SettledObject(BootstrapRef)}
       \/ objs[InfrastructureRef] \in {Missing, SettledObject(InfrastructureRef)}
    /\ watches = {}
    /\ last = NoCall

ReconcileBootstrapPass ==
    \E r \in reconcileBootstrap(m, objs[BootstrapRef]) :
        /\ r.err.kind \notin FaultKinds
        /\ Returned("reconcileBootstrap", BootstrapRef, r, r.extErr, r.err)

ReconcileInfrastructurePass ==
    \E r \in reconcileInfrastructure(m, objs[InfrastructureRef]) :
        /\ r.err.kind \notin FaultKinds
        /\ Returned("reconcileInfrastructure", InfrastructureRef, r, r.extErr, r.err)

\* The provider finishes its work on the object a reference names.
ProviderSettles(ref) ==
    /\ ref = BootstrapRef => m.configRef
    /\ objs' = [objs EXCEPT ![ref] =
                   IF objs[ref].exists
                   THEN [SettledObject(ref) EXCEPT !.ownerRef = objs[ref].ownerRef,
                                                   !.clusterLabel = objs[ref].clusterLabel]
                   ELSE SettledObject(ref)]
    /\ objs' # objs
    /\ last' = NoCall
    /\ UNCHANGED <<m, watches>>

NextPass ==
    \/ ReconcileBootstrapPass
    \/ ReconcileInfrastructurePass
    \/ ReconcilePhaseCall
    \/ \E ref \in Refs : ProviderSettles(ref)

SpecPass == InitPass /\ [][NextPass]_vars

\* Retries: a new Machine, or one whose infrastructure an earlier pass saw
\* ready, with each object missing or not ready yet.  The scheduler runs
\* reconcileBootstrap and reconcileInfrastructure again as long as they have
\* work to do; nothing is assumed of when reconcilePhase runs, nor of when
\* the providers settle their objects.
UnsettledObject(ref) ==
    [SettledObject(ref) EXCEPT !.ready = FALSE, !.dataSecretName = "", !.providerID = ""]

InitRetry ==
    /\ m \in { [NewMachine(TRUE) EXCEPT !.infrastructureReady = infrastructureReady]
                 : infrastructureReady \in BOOLEAN }
    /\ objs \in [Refs -> {Missing} \cup { UnsettledObject(ref) : ref \in Refs }]
    /\ \A ref \in Refs : objs[ref] \in {Missing, UnsettledObject(ref)}
    /\ watches = {}
    /\ last = NoCall

SpecRetry ==
    /\ InitRetry /\ [][NextPass]_vars
    /\ WF_vars(ReconcileBootstrapPass)
    /\ WF_vars(ReconcileInfrastructurePass)

(***************************************************************************)
(* Properties of reconcilePhase (checked under SpecPhase)                   *)
(***************************************************************************)
FailureSet(mach) == mach.failureReason # Nil \/ mach.failureMessage # Nil

\* No rule of the list matches.
NoRule == "<no rule>"

\* The phase of the last rule, in the documented order, that matches mach.
LastMatchingPhase(mach) ==
    IF mach.deletionTimestamp THEN MachinePhaseDeleting
    ELSE IF FailureSet(mach) THEN MachinePhaseFailed
    ELSE IF mach.nodeRef /\ mach.infrastructureReady THEN MachinePhaseRunning
    ELSE IF mach.nodeRef THEN MachinePhaseProvisioned
    ELSE IF mach.bootstrapReady /\ ~mach.infrastructureReady THEN MachinePhaseProvisioning
    ELSE IF mach.phase = "" THEN MachinePhasePending
    ELSE NoRule

\* A rule other than Pending matches mach.
LaterRuleMatches(mach) ==
    \/ mach.bootstrapReady /\ ~mach.infrastructureReady
    \/ mach.nodeRef
    \/ FailureSet(mach)
    \/ mach.deletionTimestamp

\* C1: after reconcilePhase the phase is that of the last matching rule in the
\* order Pending, Provisioning, Provisioned, Running, Failed, Deleting; a
\* Machine with a failure field and a deletion timestamp ends in Deleting.
C1_LastMatchingRuleWins ==
    [][last'.op = "reconcilePhase" =>
          /\ LastMatchingPhase(m) # NoRule => m'.phase = LastMatchingPhase(m)
          /\ FailureSet(m) /\ m.deletionTimestamp =>
                 m'.phase = MachinePhaseDeleting /\ m'.phase # MachinePhaseFailed]_vars

C1_Witness ==
    /\ last.op = "reconcilePhase"
    /\ FailureSet(m) /\ m.deletionTimestamp /\ m.nodeRef /\ m.infrastructureReady
    /\ m.phase = MachinePhaseDeleting

\* C2 as stated: with NodeRef set and InfrastructureReady true the phase after
\* reconcilePhase is Running, whatever the other fields are.
C2_RunningWhateverElse ==
    last.op = "reconcilePhase" /\ m.nodeRef /\ m.infrastructureReady
        => m.phase = MachinePhaseRunning

\* C2 amended: with NodeRef set and InfrastructureReady true the phase after
\* reconcilePhase is Running whatever the entry phase and BootstrapReady are,
\* provided no failure field and no deletion timestamp is set; it is Failed
\* with a failure field and no deletion timestamp, Deleting with a deletion
\* timestamp.
C2_RunningUnlessFailedOrDeleting ==
    last.op = "reconcilePhase" /\ m.nodeRef /\ m.infrastructureReady
        => m.phase = IF m.deletionTimestamp THEN MachinePhaseDeleting
                     ELSE IF FailureSet(m) THEN MachinePhaseFailed
                     ELSE MachinePhaseRunning

C2_Witness ==
    /\ last.op = "reconcilePhase"
    /\ m.nodeRef /\ m.infrastructureReady /\ m.bootstrapReady
    /\ ~FailureSet(m) /\ ~m.deletionTimestamp
    /\ m.phase = MachinePhaseRunning /\ m.lastUpdated = MaxTime

\* The phase reconcilePhase gives a Machine that differs from mach in the
\* entry phase alone.
PhaseFromEntry(mach, entry) == reconcilePhase([mach EXCEPT !.phase = entry], MaxTime).phase

\* C3 as stated: the phase after reconcilePhase does not depend on the entry
\* phase: Machines that agree on every other field get the same phase.
C3_PhaseIgnoresEntryPhase ==
    [][last'.op = "reconcilePhase" =>
          \A entry \in EntryPhases : PhaseFromEntry(m, entry) = m'.phase]_vars

\* C3 amended: Machines that agree on every field but the entry phase get the
\* same phase whenever a rule other than Pending matches; when none does, the
\* phase after is Pending for an unset entry phase and the entry phase itself
\* otherwise.
C3_PhaseIgnoresEntryPhaseWhenRuleMatches ==
    [][last'.op = "reconcilePhase" =>
          IF LaterRuleMatches(m)
          THEN \A entry \in EntryPhases : PhaseFromEntry(m, entry) = m'.phase
          ELSE m'.phase = IF m.phase = "" THEN MachinePhasePending ELSE m.phase]_vars

C3_Witness ==
    /\ last.op = "reconcilePhase"
    /\ m.bootstrapReady /\ ~m.infrastructureReady /\ ~m.nodeRef
    /\ ~FailureSet(m) /\ ~m.deletionTimestamp
    /\ m.phase = MachinePhaseProvisioning /\ m.lastUpdated = MaxTime

\* C4: reconcilePhase applied to the result of a reconcilePhase call leaves
\* the phase unchanged and does not refresh LastUpdated.
C4_Idempotent ==
    [][last.op = "reconcilePhase" /\ last'.op = "reconcilePhase" =>
          m'.phase = m.phase /\ m'.lastUpdated = m.lastUpdated]_vars

C4_Witness ==
    /\ last.op = "reconcilePhase" /\ last.again
    /\ m.phase = MachinePhaseRunning
    /\ m.lastUpdated = MaxTime - 1

\* C5: reconcilePhase refreshes LastUpdated exactly when the phase after the
\* call differs from the phase on entry, keeps it otherwise, and changes
\* nothing but Status.Phase and Status.LastUpdated.
C5_StampIffPhaseChanged ==
    [][last'.op = "reconcilePhase" =>
          /\ (m'.phase # m.phase) <=> (m'.lastUpdated # m.lastUpdated)
          /\ m'.lastUpdated # m.lastUpdated => m'.lastUpdated > m.lastUpdated
          /\ m' = [m EXCEPT !.phase = m'.phase, !.lastUpdated = m'.lastUpdated]
          /\ objs' = objs /\ watches' = watches]_vars

C5_Witness ==
    /\ last.op = "reconcilePhase" /\ ~last.again
    /\ m.phase = MachinePhaseFailed
    /\ m.lastUpdated = MaxTime

(***************************************************************************)
(* Properties of the external reconciliation (checked under Spec)          *)
(***************************************************************************)
\* The terminal failure of reconcileInfrastructure is recorded in mach.
TerminalFailure(mach) ==
    /\ mach.failureReason = InvalidConfigurationMachineError
    /\ mach.failureMessage = DeletedAfterReadyMessage

\* C6: a fetch that reports not-found makes reconcileExternal return a
\* RequeueAfterError of 30 seconds and an empty output, without a patch, a
\* watch registration or a change to the stored object or, by
\* reconcileExternal itself, to the Machine.
C6_NotFoundIsRetryAfter ==
    [][last'.fetch = "notfound" =>
          /\ last'.extErr.kind = "RequeueAfterError" /\ last'.extErr.after = 30
          /\ last'.out = [result |-> FALSE, paused |-> FALSE]
          /\ last'.patches = 0 /\ ~last'.watched
          /\ objs' = objs /\ watches' = watches
          /\ last'.op \in {"reconcileExternal", "reconcileBootstrap"} => m' = m]_vars

C6_Witness ==
    /\ last.op = "reconcileExternal" /\ last.ref = InfrastructureRef
    /\ last.fetch = "notfound"
    /\ last.err.kind = "RequeueAfterError"

\* C7: reconcileInfrastructure on a Machine with InfrastructureReady true
\* whose infrastructure reference is not found sets FailureReason and
\* FailureMessage and returns the not-found error of reconcileExternal, which
\* is not a RequeueAfterError.
C7_VanishedInfrastructureIsHardError ==
    [][last'.op = "reconcileInfrastructure" /\ m.infrastructureReady /\ last'.fetch = "notfound" =>
          /\ m'.failureReason # Nil /\ m'.failureMessage # Nil
          /\ last'.err = last'.extErr
          /\ last'.err.kind # "RequeueAfterError"]_vars

\* C8: reconcileInfrastructure records the terminal failure exactly when its
\* reconcileExternal call failed with not-found and InfrastructureReady was
\* true on entry; after any other failure of that call the failure fields are
\* as they were.
C8_TerminalFailureOnlyOnNotFound ==
    [][last'.op = "reconcileInfrastructure" /\ last'.extErr # NoError =>
          IF last'.fetch = "notfound" /\ m.infrastructureReady
          THEN TerminalFailure(m')
          ELSE m'.failureReason = m.failureReason /\ m'.failureMessage = m.failureMessage]_vars

\* C9: reconcileInfrastructure on a Machine that carries the terminal failure
\* fetches nothing, patches nothing, registers no watch and leaves the
\* Machine as it is.
C9_NoReconcileAfterTerminalFailure ==
    [][last'.op = "reconcileInfrastructure" /\ TerminalFailure(m) =>
          /\ last'.fetch = "none" /\ last'.patches = 0 /\ ~last'.watched
          /\ m' = m /\ objs' = objs /\ watches' = watches]_vars

\* C10: no step clears a failure field: a FailureReason (a FailureMessage)
\* that is set stays set.
C10_FailuresSticky ==
    [][/\ m.failureReason # Nil => m'.failureReason # Nil
       /\ m.failureMessage # Nil => m'.failureMessage # Nil]_vars

C10_Witness ==
    /\ last.op = "reconcileInfrastructure" /\ last.err = NoError /\ last.out.result
    /\ TerminalFailure(m)
    /\ m.infrastructureReady /\ m.providerID # Nil

C17_ConflictPropagates ==
    [][last'.extErr.kind = "Conflict" =>
          /\ last'.patches = 1
          /\ last'.extErr \in PatchErrors
          /\ ~last'.watched /\ watches' = watches
          /\ objs' = objs
          /\ last'.out = EmptyOutput
          /\ last'.op = "reconcileExternal" => m' = m /\ last'.err = last'.extErr]_vars

C17_Witness ==
    /\ last.op = "reconcileExternal" /\ last.ref = InfrastructureRef
    /\ last.extErr.kind = "Conflict" /\ last.patches = 1
    /\ objs[InfrastructureRef].exists /\ ~objs[InfrastructureRef].ownerRef
    /\ InfrastructureRef \notin watches

C20_ReadyImpliesProviderID ==
    m.infrastructureReady => m.providerID # Nil

(***************************************************************************)
(* Properties of the reconcile functions on objects with known content     *)
(* (checked under SpecPass and SpecRetry)                                  *)
(***************************************************************************)
\* reconcileInfrastructure gets past its deletion check on the stored object:
\* the object exists, is not paused and is not being deleted.
InfrastructureReached ==
    /\ Tracked(objs[InfrastructureRef]) /\ objs[InfrastructureRef].exists
    /\ ~objs[InfrastructureRef].paused /\ ~objs[InfrastructureRef].deleting

\* C12 as stated: a reconcileBootstrap call on a Machine whose DataSecretName
\* is already set leaves BootstrapReady = true.
C12_ShortcutSetsBootstrapReady ==
    [][last'.op = "reconcileBootstrap" /\ m.dataSecretName # Nil => m'.bootstrapReady]_vars

\* C13: a reconcileInfrastructure call that reaches a ready object with an
\* empty spec.providerID returns an error that is not a RequeueAfterError and
\* leaves ProviderID, Addresses and FailureDomain of the Machine as they were.
C13_EmptyProviderIDIsHardError ==
    [][/\ last'.op = "reconcileInfrastructure" /\ InfrastructureReached
       /\ objs[InfrastructureRef].ready /\ objs[InfrastructureRef].providerID = ""
       => /\ last'.err.kind = "error" /\ last'.err.after = 0
          /\ m'.providerID = m.providerID
          /\ m'.addresses = m.addresses
          /\ m'.failureDomain = m.failureDomain]_vars

C13_Witness ==
    /\ last.op = "reconcileInfrastructure" /\ last.err.kind = "error"
    /\ InfrastructureReached
    /\ objs[InfrastructureRef].ready /\ objs[InfrastructureRef].providerID = ""
    /\ objs[InfrastructureRef].addresses.found /\ objs[InfrastructureRef].failureDomain.found
    /\ m.infrastructureReady /\ m.providerID = Nil /\ m.addresses = <<>> /\ m.failureDomain = Nil

\* C14 as stated: a reconcileInfrastructure call that reaches a ready object
\* with a non-empty spec.providerID and no status.addresses returns no error
\* and leaves the Machine with no addresses, whatever it held before.
C14_AbsentAddressesReadAsEmpty ==
    [][/\ last'.op = "reconcileInfrastructure" /\ InfrastructureReached
       /\ objs[InfrastructureRef].ready /\ objs[InfrastructureRef].providerID # ""
       /\ ~objs[InfrastructureRef].addresses.found
       => last'.err = NoError /\ m'.addresses = <<>>]_vars

\* C15: a reconcileBootstrap (reconcileInfrastructure) call directly after a
\* call of the same function, the external objects left alone in between,
\* changes neither the Machine nor the stored objects nor the watches, and
\* returns what the first call returned.
C15_SecondCallChangesNothing ==
    [][/\ last'.op \in {"reconcileBootstrap", "reconcileInfrastructure"}
       /\ last.op = last'.op
       => /\ m' = m /\ objs' = objs /\ watches' = watches
          /\ last'.err = last.err]_vars

C15_Witness ==
    /\ last.op = "reconcileInfrastructure" /\ last.again /\ last.err = NoError
    /\ m.infrastructureReady /\ m.providerID # Nil /\ m.failureReason # Nil
    /\ objs[InfrastructureRef].ownerRef /\ InfrastructureRef \in watches

\* The object under ref is as the claim wants it to stay: it exists, is not
\* paused, not deleting, reports no failure, is ready and has its data secret
\* name (bootstrap) or provider id (infrastructure).
Settled(ref) ==
    /\ Tracked(objs[ref]) /\ objs[ref].exists
    /\ ~objs[ref].paused /\ ~objs[ref].deleting /\ objs[ref].ready
    /\ objs[ref].failureReason = "" /\ objs[ref].failureMessage = ""
    /\ ref = BootstrapRef => objs[ref].dataSecretName # ""
    /\ ref = InfrastructureRef => objs[ref].providerID # ""

Converged == m.bootstrapReady /\ m.infrastructureReady /\ m.providerID # Nil

\* C16: if from some point on both external objects stay settled, the
\* Machine eventually has BootstrapReady, InfrastructureReady and ProviderID
\* set, whatever the passes before that point returned.
C16_ConvergesUnderRetry ==
    <>[](\A ref \in Refs : Settled(ref)) => <>Converged

C16_Witness ==
    /\ Converged /\ \A ref \in Refs : Settled(ref)
    /\ m.failureReason = InvalidConfigurationMachineError
    /\ m.dataSecretName = "secret-1"

\* C18: a call whose reconcileExternal ran to its end on an object that
\* reports a failure reason (message) leaves the Machine's FailureReason
\* (FailureMessage) set, and leaves alone the field the object does not
\* report; reconcilePhase on a Machine with a failure field and no deletion
\* timestamp gives Failed, BootstrapReady and InfrastructureReady or not.
C18_ReportedFailureGivesFailed ==
    [][/\ /\ last'.op \in {"reconcileBootstrap", "reconcileInfrastructure"}
          /\ last'.out.result
          => /\ m'.failureReason = IF objs[last'.ref].failureReason # ""
                                   THEN MachineStatusError(objs[last'.ref].failureReason)
                                   ELSE m.failureReason
             /\ m'.failureMessage = IF objs[last'.ref].failureMessage # ""
                                    THEN ExternalFailureMessage(last'.ref, objs[last'.ref].failureMessage)
                                    ELSE m.failureMessage
             /\ objs[last'.ref].failureReason # "" => m'.failureReason # Nil
             /\ objs[last'.ref].failureMessage # "" => m'.failureMessage # Nil
       /\ last'.op = "reconcilePhase" /\ FailureSet(m) /\ ~m.deletionTimestamp
          => m'.phase = MachinePhaseFailed]_vars

C18_Witness ==
    /\ last.op = "reconcilePhase" /\ m.phase = MachinePhaseFailed
    /\ m.bootstrapReady /\ m.infrastructureReady /\ m.providerID # Nil
    /\ m.failureReason = Nil /\ m.failureMessage # Nil
    /\ InfrastructureReached /\ objs[InfrastructureRef].ready
    /\ objs[InfrastructureRef].failureReason = "" /\ objs[InfrastructureRef].failureMessage # ""

====
